---------------------------- MODULE Spec2Model ----------------------------
(***************************************************************************)
(* Model of the report-conversion pipeline (index.js, app.js): the title   *)
(* locator find_page_number, the PDF assembler mergePDFs, and the two     *)
(* callers of generateHTML / generatePDF: the HTTP handlers and main().    *)
(*                                                                         *)
(* A JavaScript string is modelled as a sequence of one-character strings, *)
(* so that String.prototype.includes and replace are computed, not assumed.*)
(***************************************************************************)
EXTENDS Integers, Sequences, FiniteSets, TLC

(***************************************************************************)
(* Bounds of the model.                                                    *)
(***************************************************************************)
MaxScanPages == 2       \* scanned pages (pages 3..numPages) of a generated PDF
MaxTitles == 2          \* TOC entries of a generated TOC list
MaxExtraPages == 1      \* largest extrapages value that is tried
MaxDocPages == 3        \* largest page count of a document given to mergePDFs
MaxBuffers == 3         \* largest length of the buffer list given to mergePDFs

(***************************************************************************)
(* State.                                                                  *)
(***************************************************************************)
\* find_page_number
VARIABLES
    pdf,                \* the parsed PDF: pdf[p] is the list of text runs of page p
    table_of_content,   \* the ordered TOC title strings
    extrapages,         \* the extrapages argument
    pageNb,             \* the page loop's counter
    items,              \* pageContent.items of the page being scanned
    j,                  \* the item loop's counter (1-based here, 0-based in the code)
    scrapText,          \* the rolling text accumulator
    foundTitles,        \* titles recorded as "seen"
    titlesPages,        \* the result: page number -> list of title indices
    finds,              \* history: every <<page, index>> for which includes() was true
    scenario,           \* which family of inputs this run was started with
    fpc                 \* position in find_page_number

locVars == <<pdf, table_of_content, extrapages, pageNb, items, j, scrapText,
             foundTitles, titlesPages, finds, scenario, fpc>>

\* mergePDFs
VARIABLES
    pdfBuffers,         \* the buffer list given to mergePDFs
    mergeExtra,         \* the extrapages argument of mergePDFs
    loaded,             \* whether PDFDocument.load has been called
    firstPDFDoc,        \* the first document once loaded
    restPDFDoc,         \* the second document once loaded
    mergedPdfBuffer,    \* the returned buffer (NoBuffer until then)
    mergeError,         \* the error thrown, or NoError
    mpc                 \* position in mergePDFs

mergeVars == <<pdfBuffers, mergeExtra, loaded, firstPDFDoc, restPDFDoc, mergedPdfBuffer,
               mergeError, mpc>>

\* The server, generateHTML and generatePDF
VARIABLES
    instance,       \* Browser.instance: 0 for null, else the id of a launched browser
    launches,       \* number of browsers puppeteer.launch has started successfully
    openPages,      \* page handles created by newPage() and not closed
    outputHtml,     \* who wrote the file "output.html" last ("none" at start)
    req,            \* per invocation: the handler's locals and its position
    mode,           \* how the process was started: "server" (app.js) or "process" (index.js)
    exit            \* "running", or the code process.exit was called with

srvVars == <<instance, launches, openPages, outputHtml, req, mode, exit>>

vars == <<locVars, mergeVars, srvVars>>

(***************************************************************************)
(* Strings.                                                                *)
(***************************************************************************)
NL == "\n"

\* Mutant of Includes: t is only looked for at the start of s.
IncludesAtStart(s, t) == Len(t) <= Len(s) /\ SubSeq(s, 1, Len(t)) = t

\* s.includes(t): t occurs in s as a contiguous substring.
Includes(s, t) ==
    \E i \in 0..(Len(s) - Len(t)) : SubSeq(s, i + 1, i + Len(t)) = t

\* str.replace("\n", ""): a string pattern replaces the FIRST occurrence only.
RECURSIVE RemoveFirstNewline(_)
RemoveFirstNewline(s) ==
    IF s = <<>> THEN <<>>
    ELSE IF Head(s) = NL THEN Tail(s)
    ELSE <<Head(s)>> \o RemoveFirstNewline(Tail(s))

(***************************************************************************)
(* find_page_number (index.js).                                            *)
(***************************************************************************)

\* let titlesPages = {}
EmptyMap == [p \in {} |-> <<>>]

\* The first page the loop reads: for (let pageNb = 3; ...)
FirstScannedPage == 3

\* if (!titlesPages[pageNb]) titlesPages[pageNb] = []; titlesPages[pageNb].push(index)
Push(tp, p, index) ==
    IF p \in DOMAIN tp THEN [tp EXCEPT ![p] = Append(@, index)]
    ELSE (p :> <<index>>) @@ tp

\* Mutant of Suppressed: no find is ever dropped.
SuppressedNever(found, title, extra) == FALSE

\* Mutant of Suppressed: the "seen" mechanism also active when extrapages is 0.
SuppressedAlways(found, title, extra) ==
    (\A k \in 1..Len(found) : found[k] # title) /\ extra >= 0

\* if (!foundTitles.includes(title) && extrapages > 0)
Suppressed(found, title, extra) ==
    (\A k \in 1..Len(found) : found[k] # title) /\ extra > 0

\* table_of_content.forEach((title, index) => {...}), from entry i on.
\* acc = [scrapText, foundTitles, titlesPages, finds]; index is 0-based as in the code.
RECURSIVE ForEachTitle(_, _, _, _, _)
ForEachTitle(toc, i, p, extra, acc) ==
    IF i > Len(toc) THEN acc
    ELSE LET title == toc[i]
             index == i - 1
         IN  IF Includes(acc.scrapText, title)
             THEN LET rec == IF Suppressed(acc.foundTitles, title, extra)
                             THEN [acc EXCEPT !.foundTitles = Append(@, title)]
                             ELSE [acc EXCEPT !.titlesPages = Push(@, p, index)]
                  IN  ForEachTitle(toc, i + 1, p, extra,
                          [rec EXCEPT !.scrapText = <<>>,
                                      !.finds = Append(@, <<p, index>>)])
             ELSE ForEachTitle(toc, i + 1, p, extra, acc)

\* One iteration of the item loop: append the run (first newline removed), then forEach.
ScanRun(toc, p, extra, run, acc) ==
    ForEachTitle(toc, 1, p, extra,
        [acc EXCEPT !.scrapText = @ \o RemoveFirstNewline(run)])

\* Mutant of PageStartText: the accumulator declared outside the page loop.
PageStartTextKept(previous) == previous

\* let scrapText = "" at the top of each page iteration.
PageStartText(previous) == <<>>

(***************************************************************************)
(* Inputs of find_page_number.                                             *)
(***************************************************************************)
\* Title strings and page layouts of the generated inputs.
TitleTexts == { <<"a">>, <<"b">>, <<"a", "b">>, <<>> }     \* "a", "b", "ab", ""

PageTexts ==
    { <<>>,                                 \* a page without text
      << <<"a">> >>,
      << <<"b">> >>,
      << <<"a">>, <<"b">> >>,               \* "ab" split over two runs
      << <<"a", NL, "b">> >>,               \* "ab" with an embedded newline
      << <<"a", "b">>, <<"a", "b">> >> }    \* "ab" twice on one page

RECURSIVE SeqsUpTo(_, _)
SeqsUpTo(S, n) ==
    IF n = 0 THEN { <<>> }
    ELSE LET shorter == SeqsUpTo(S, n - 1)
         IN  shorter \cup { Append(q, x) : q \in shorter, x \in S }

TocLists == SeqsUpTo(TitleTexts, MaxTitles) \ { <<>> }

\* Pages 1 and 2 of a generated document: the cover, and the contents page,
\* which prints the titles one run each.
FrontPages(toc) == << <<>>, toc >>

Introduction == <<"I", "n", "t", "r", "o", "d", "u", "c", "t", "i", "o", "n">>
Intro == <<"I", "n", "t", "r", "o">>
duction == <<"d", "u", "c", "t", "i", "o", "n">>
Scope == <<"1", ".", " ", "S", "c", "o", "p", "e">>
Method == <<"2", ".", " ", "M", "e", "t", "h", "o", "d">>
Filler == <<"t", "e", "x", "t">>

ScenarioTOC == <<Introduction, Scope, Method>>

\* Scenario A: "Introduction" on page 3, "1. Scope" on page 4, "2. Method" nowhere.
ScenarioADocs ==
    { << <<>>, <<Filler>>, p3, p4 >> \o rest :
        p3 \in { << Introduction >>, << Intro, duction >>,
                 << Filler, Introduction, Filler >>,
                 << Intro \o <<NL>> \o duction >> },
        p4 \in { << Scope >>, << <<"1", ".", " ">>, <<"S", "c", "o", "p", "e">> >>,
                 << Scope, Filler >> },
        rest \in { <<>>, << <<Filler>> >> } }

\* Scenario B: the cover takes pages 1 and 2 (extrapages = 1); "Introduction"
\* occurs on the overflow page 2 and then on page 4, and on no other page.
ScenarioBDocs ==
    { << <<Filler>>, p2, p3, p4 >> \o rest :
        p2 \in { << Introduction >>, << Filler, Introduction >> },
        p3 \in { <<>>, << Filler >> },
        p4 \in { << Introduction >>, << Intro, duction >>, << Introduction, Filler >> },
        rest \in { <<>>, << <<Scope>> >>, << <<Scope>>, <<Method>> >> } }

(***************************************************************************)
(* find_page_number as a state machine, one step per loop iteration.       *)
(***************************************************************************)
FindStart(doc, toc, extra, sc) ==
    /\ pdf = doc
    /\ table_of_content = toc
    /\ extrapages = extra
    /\ scenario = sc
    /\ pageNb = FirstScannedPage
    /\ items = <<>>
    /\ j = 1
    /\ scrapText = <<>>
    /\ foundTitles = <<>>
    /\ titlesPages = EmptyMap
    /\ finds = <<>>
    /\ fpc = "page"

LocatorInit ==
    \/ \E toc \in TocLists, extra \in 0..MaxExtraPages,
          scanned \in SeqsUpTo(PageTexts, MaxScanPages) :
            FindStart(FrontPages(toc) \o scanned, toc, extra, "generated")
    \/ \E doc \in ScenarioADocs : FindStart(doc, ScenarioTOC, 0, "A")
    \/ \E doc \in ScenarioBDocs : FindStart(doc, ScenarioTOC, 1, "B")

\* pageNb <= pdf.numPages: getPage, getTextContent, let scrapText = "".
GetPage ==
    /\ fpc = "page"
    /\ pageNb <= Len(pdf)
    /\ items' = pdf[pageNb]
    /\ j' = 1
    /\ scrapText' = PageStartText(scrapText)
    /\ fpc' = "items"
    /\ UNCHANGED <<pdf, table_of_content, extrapages, pageNb, foundTitles,
                   titlesPages, finds, scenario>>
    /\ UNCHANGED <<mergeVars, srvVars>>

\* One iteration of for (let j = 0; j < pageContent.items.length; j++).
ScanItem ==
    /\ fpc = "items"
    /\ j <= Len(items)
    /\ LET acc == ScanRun(table_of_content, pageNb, extrapages, items[j],
                      [scrapText |-> scrapText, foundTitles |-> foundTitles,
                       titlesPages |-> titlesPages, finds |-> finds])
       IN  /\ scrapText' = acc.scrapText
           /\ foundTitles' = acc.foundTitles
           /\ titlesPages' = acc.titlesPages
           /\ finds' = acc.finds
    /\ j' = j + 1
    /\ UNCHANGED <<pdf, table_of_content, extrapages, pageNb, items, scenario, fpc>>
    /\ UNCHANGED <<mergeVars, srvVars>>

\* The item loop ends: pageNb++.
EndPage ==
    /\ fpc = "items"
    /\ j > Len(items)
    /\ pageNb' = pageNb + 1
    /\ fpc' = "page"
    /\ UNCHANGED <<pdf, table_of_content, extrapages, items, j, scrapText,
                   foundTitles, titlesPages, finds, scenario>>
    /\ UNCHANGED <<mergeVars, srvVars>>

\* pageNb > pdf.numPages: return titlesPages.
ReturnTitlesPages ==
    /\ fpc = "page"
    /\ pageNb > Len(pdf)
    /\ fpc' = "done"
    /\ UNCHANGED <<pdf, table_of_content, extrapages, pageNb, items, j, scrapText,
                   foundTitles, titlesPages, finds, scenario>>
    /\ UNCHANGED <<mergeVars, srvVars>>


(***************************************************************************)
(* Properties of find_page_number.                                         *)
(***************************************************************************)
\* The positions <<page, k>> of the returned map that hold title index i.
RecordedAt(i) ==
    { pk \in UNION { { <<p, k>> : k \in 1..Len(titlesPages[p]) } : p \in DOMAIN titlesPages } :
        titlesPages[pk[1]][pk[2]] = i }

PagesOf(i) == { pk[1] : pk \in RecordedAt(i) }

\* The whole text of a page as the code accumulates it: its runs, each with its
\* first newline removed, concatenated.
RECURSIVE PageText(_)
PageText(runs) ==
    IF runs = <<>> THEN <<>>
    ELSE RemoveFirstNewline(Head(runs)) \o PageText(Tail(runs))

\* The title indices of the find events on page p, in order.
RECURSIVE FindsOn(_, _)
FindsOn(fs, p) ==
    IF fs = <<>> THEN <<>>
    ELSE (IF Head(fs)[1] = p THEN <<Head(fs)[2]>> ELSE <<>>) \o FindsOn(Tail(fs), p)

\* C1: in the map find_page_number returns, every title index occurs at most
\* once over all page lists together.
C1_EachIndexAtMostOnce ==
    fpc = "done" =>
        \A i \in 0..(Len(table_of_content) - 1) : Cardinality(RecordedAt(i)) <= 1

\* C5 (Scenario B): extrapages = 1, "Introduction" on the overflow page and on
\* page 4: the returned map records index 0 under page 4 and no other page.
C5_ScenarioB_IntroductionOnPage4 ==
    (scenario = "B" /\ fpc = "done") => PagesOf(0) = {4}

C8_NoSuppressionWithoutExtraPages ==
    extrapages = 0 =>
        /\ foundTitles = <<>>
        /\ DOMAIN titlesPages = { finds[k][1] : k \in 1..Len(finds) }
        /\ \A p \in DOMAIN titlesPages : titlesPages[p] = FindsOn(finds, p)

C8_Witness ==
    extrapages = 0 /\ fpc = "done" /\ Len(finds) >= 3 /\ foundTitles = <<>>

\* C9: an index recorded under page p names a title that occurs verbatim in
\* the text of page p itself (runs concatenated, newline removed); a title
\* split across a page boundary is therefore not recorded.
C9_RecordedTitleOccursOnItsPage ==
    \A p \in DOMAIN titlesPages : \A k \in 1..Len(titlesPages[p]) :
        Includes(PageText(pdf[p]), table_of_content[titlesPages[p][k] + 1])

\* "ab" is split over the boundary of pages 3 and 4 and is not recorded, while
\* another title is.
C9_Witness ==
    /\ fpc = "done"
    /\ table_of_content = << <<"a", "b">>, <<"b">> >>
    /\ extrapages = 0
    /\ Len(pdf) = 4
    /\ pdf[3] = << <<"a">> >>
    /\ pdf[4] = << <<"b">> >>
    /\ PagesOf(0) = {}
    /\ PagesOf(1) = {4}

\* The positions in the history of finds that are finds of title index i.
FindsOf(i) == { k \in 1..Len(finds) : finds[k][2] = i }

\* The title text a find was a find of.
FoundText(k) == table_of_content[finds[k][2] + 1]

\* Whether find k is the first find of its title text.
FirstOfItsText(k) == \A m \in 1..(k - 1) : FoundText(m) # FoundText(k)

\* C18 as stated: a title index found k times is recorded k times when
\* extrapages = 0 and k - 1 times when extrapages > 0 (0 times when k = 0),
\* and no page below 3 is a key of the map.
C18_FirstFindOfEachIndexDropped ==
    /\ \A i \in 0..(Len(table_of_content) - 1) :
          Cardinality(RecordedAt(i)) =
              Cardinality(FindsOf(i))
              - (IF extrapages > 0 /\ FindsOf(i) # {} THEN 1 ELSE 0)
    /\ \A p \in DOMAIN titlesPages : p >= FirstScannedPage

\* C18 as amended: the find that is dropped when extrapages > 0 is the first
\* find of each title TEXT (foundTitles holds the strings): a title index
\* found k times is recorded k times, less one when extrapages > 0 and the
\* first find of its text was a find of this index; every index of a TOC list
\* of pairwise different titles is thus recorded k - 1 times, a title found
\* once not at all; and no page below 3 is a key of the map.
C18_FirstFindOfEachTextDropped ==
    /\ \A i \in 0..(Len(table_of_content) - 1) :
          /\ Cardinality(RecordedAt(i)) =
                Cardinality(FindsOf(i))
                - (IF extrapages > 0 /\ \E k \in FindsOf(i) : FirstOfItsText(k)
                   THEN 1 ELSE 0)
          /\ ( /\ extrapages > 0
               /\ \A q \in 1..Len(table_of_content) :
                     q # i + 1 => table_of_content[q] # table_of_content[i + 1] )
             => Cardinality(RecordedAt(i)) =
                   Cardinality(FindsOf(i)) - (IF FindsOf(i) # {} THEN 1 ELSE 0)
    /\ \A p \in DOMAIN titlesPages : p >= FirstScannedPage

\* extrapages = 1: "a" is found on pages 3 and 4 and recorded once, under
\* page 4; "b" is found once and gets no page number.
C18_Witness ==
    /\ fpc = "done"
    /\ extrapages = 1
    /\ table_of_content = << <<"a">>, <<"b">> >>
    /\ Cardinality(FindsOf(0)) = 2
    /\ titlesPages = (4 :> <<0>>)
    /\ Cardinality(FindsOf(1)) = 1
    /\ PagesOf(1) = {}

(***************************************************************************)
(* mergePDFs (index.js).  A PDF document is the sequence of its pages; the *)
(* page <<b, i>> is page i (0-based) of the b-th buffer of the input list. *)
(***************************************************************************)

NoBuffer == <<>>
NoError == "no error"
CountMismatchError == "mergePDFs requires exactly two PDF buffers."
PageIndexError == "removePage: index out of range"

\* A well-formed document of n pages held by buffer b.
DocOf(b, n) == [i \in 1..n |-> <<b, i - 1>>]

\* Mutant of CountMismatch: only too few buffers are rejected.
CountTooSmall(buffers) == Len(buffers) < 2

\* if (pdfBuffers.length !== 2)
CountMismatch(buffers) == Len(buffers) # 2

\* PDFDocument.removePage(index), index 0-based; the library throws when the
\* index is not a page of the document.
CanRemovePage(doc, index) == 0 <= index /\ index < Len(doc)

RemovePage(doc, index) == SubSeq(doc, 1, index) \o SubSeq(doc, index + 2, Len(doc))

\* restPDFDoc.removePage(0)
RestRemovedIndex == 0

\* firstPDFDoc.removePage(1), extrapages times
FirstRemovedIndex == 1

\* for (let i = 0; i < extrapages; i++) firstPDFDoc.removePage(1): the document
\* after the loop, and whether every removal succeeded (threw = FALSE).
RECURSIVE TrimFirst(_, _)
TrimFirst(doc, n) ==
    IF n <= 0 THEN [threw |-> FALSE, doc |-> doc]
    ELSE IF CanRemovePage(doc, FirstRemovedIndex)
         THEN TrimFirst(RemovePage(doc, FirstRemovedIndex), n - 1)
         ELSE [threw |-> TRUE, doc |-> doc]

\* Mutant of CopiedPages: every page left in the first document is copied
\* (the commented-out forEach of the source).
CopiedAllPages(first) == first

\* restPDFDoc.copyPages(firstPDFDoc, [0])
CopiedPages(first) == << first[1] >>

\* restPDFDoc.insertPage(0, copiedPages)
InsertAtFront(rest, copied) == copied \o rest

\* mergePDFs as a function of its arguments: the merged document or the error.
MergePDFs(buffers, extra) ==
    IF CountMismatch(buffers) THEN [error |-> CountMismatchError, doc |-> NoBuffer]
    ELSE LET first == TrimFirst(buffers[1], extra)
             rest == buffers[2]
         IN  IF ~CanRemovePage(rest, RestRemovedIndex) \/ first.threw
             THEN [error |-> PageIndexError, doc |-> NoBuffer]
             ELSE [error |-> NoError,
                   doc |-> InsertAtFront(RemovePage(rest, RestRemovedIndex),
                                         CopiedPages(first.doc))]

MergeInit ==
    /\ \E n \in 0..MaxBuffers :
         \E counts \in [1..n -> 1..MaxDocPages] :
            pdfBuffers = [b \in 1..n |-> DocOf(b - 1, counts[b])]
    /\ mergeExtra \in 0..MaxExtraPages
    /\ loaded = FALSE
    /\ firstPDFDoc = <<>>
    /\ restPDFDoc = <<>>
    /\ mergedPdfBuffer = NoBuffer
    /\ mergeError = NoError
    /\ mpc = "check"

\* Lines 310-312: the count check, before anything is loaded.
MergeCheckCount ==
    /\ mpc = "check"
    /\ IF CountMismatch(pdfBuffers)
       THEN mpc' = "threw" /\ mergeError' = CountMismatchError
       ELSE mpc' = "load" /\ UNCHANGED mergeError
    /\ UNCHANGED <<pdfBuffers, mergeExtra, loaded, firstPDFDoc, restPDFDoc,
                   mergedPdfBuffer>>
    /\ UNCHANGED <<locVars, srvVars>>

\* Lines 315-316: load both documents.
MergeLoad ==
    /\ mpc = "load"
    /\ loaded' = TRUE
    /\ firstPDFDoc' = pdfBuffers[1]
    /\ restPDFDoc' = pdfBuffers[2]
    /\ mpc' = "remove"
    /\ UNCHANGED <<pdfBuffers, mergeExtra, mergedPdfBuffer, mergeError>>
    /\ UNCHANGED <<locVars, srvVars>>

\* Lines 326-331: remove page 0 of the second document, then extrapages times
\* page 1 of the first.
MergeRemovePages ==
    /\ mpc = "remove"
    /\ IF ~CanRemovePage(restPDFDoc, RestRemovedIndex)
       THEN /\ mpc' = "threw" /\ mergeError' = PageIndexError
            /\ UNCHANGED <<firstPDFDoc, restPDFDoc>>
       ELSE /\ restPDFDoc' = RemovePage(restPDFDoc, RestRemovedIndex)
            /\ firstPDFDoc' = TrimFirst(firstPDFDoc, mergeExtra).doc
            /\ IF TrimFirst(firstPDFDoc, mergeExtra).threw
               THEN mpc' = "threw" /\ mergeError' = PageIndexError
               ELSE mpc' = "copy" /\ UNCHANGED mergeError
    /\ UNCHANGED <<pdfBuffers, mergeExtra, loaded, mergedPdfBuffer>>
    /\ UNCHANGED <<locVars, srvVars>>

\* Lines 341-348: copy page 0 of the first document to the front of the second.
MergeCopyInsert ==
    /\ mpc = "copy"
    /\ restPDFDoc' = InsertAtFront(restPDFDoc, CopiedPages(firstPDFDoc))
    /\ mpc' = "save"
    /\ UNCHANGED <<pdfBuffers, mergeExtra, loaded, firstPDFDoc, mergedPdfBuffer,
                   mergeError>>
    /\ UNCHANGED <<locVars, srvVars>>

\* Lines 352-354: save the second document and return it.
MergeSave ==
    /\ mpc = "save"
    /\ mergedPdfBuffer' = restPDFDoc
    /\ mpc' = "returned"
    /\ UNCHANGED <<pdfBuffers, mergeExtra, loaded, firstPDFDoc, restPDFDoc, mergeError>>
    /\ UNCHANGED <<locVars, srvVars>>

(***************************************************************************)
(* find_page_number as a function of its arguments, as generatePDF calls   *)
(* it: the same loop bodies, run to the end.                               *)
(***************************************************************************)
RECURSIVE ScanItems(_, _, _, _, _, _)
ScanItems(toc, p, extra, its, k, acc) ==
    IF k > Len(its) THEN acc
    ELSE ScanItems(toc, p, extra, its, k + 1, ScanRun(toc, p, extra, its[k], acc))

RECURSIVE ScanPages(_, _, _, _, _)
ScanPages(doc, toc, extra, p, acc) ==
    IF p > Len(doc) THEN acc
    ELSE ScanPages(doc, toc, extra, p + 1,
             ScanItems(toc, p, extra, doc[p], 1,
                 [acc EXCEPT !.scrapText = PageStartText(@)]))

FindPageNumber(doc, toc, extra) ==
    ScanPages(doc, toc, extra, FirstScannedPage,
        [scrapText |-> <<>>, foundTitles |-> <<>>, titlesPages |-> EmptyMap,
         finds |-> <<>>]).titlesPages

(***************************************************************************)
(* The HTTP server (app.js) with generateHTML and generatePDF (index.js).  *)
(* Every await of a handler is a step at which another request may run.    *)
(***************************************************************************)

Requests == {"r1", "r2"}

\* The one invocation of a process started as node index.js <pdf|html> ...
MainInvocation == "main"

Invocations == Requests \cup {MainInvocation}

\* process.argv[2] values that main() acts on.
ProcessActions == {"pdf", "html"}

\* An HTML report as far as the pipeline reads it: whether it has the
\* #table-of-content list and the .totalPages field, and how many physical
\* pages its cover section fills.
HtmlDocs ==
    { [hasToc |-> t, hasTotalPages |-> TRUE, coverPages |-> c] :
        t \in BOOLEAN, c \in 1..(MaxExtraPages + 1) }
    \cup { [hasToc |-> FALSE, hasTotalPages |-> FALSE, coverPages |-> 1] }

\* The document the empty string loads to.
EmptyDoc == [hasToc |-> FALSE, hasTotalPages |-> FALSE, coverPages |-> 1]

\* req.body as bodyParser.raw({type: 'text/html'}) leaves it: undefined when
\* no body was parsed, else a Buffer, which may hold zero bytes.
Undefined == [kind |-> "undefined", bytes |-> "none", doc |-> EmptyDoc]
EmptyBuffer == [kind |-> "buffer", bytes |-> "empty", doc |-> EmptyDoc]
HtmlBuffer(d) == [kind |-> "buffer", bytes |-> "html", doc |-> d]

Bodies == { Undefined, EmptyBuffer } \cup { HtmlBuffer(d) : d \in HtmlDocs }

\* JavaScript truthiness of req.body: undefined is falsy, every object
\* (a Buffer of any length included) is truthy.
Truthy(body) == body.kind # "undefined"

\* The titles of the #table-of-content list of a report that has one.
ReportTitles == << <<"a">>, <<"b">> >>

\* What Chromium prints for the whole report: the cover pages, the contents
\* page (when there is a TOC), then one page per title.
PreliminaryPdf(d) ==
    [i \in 1..d.coverPages |-> <<>>]
    \o (IF d.hasToc THEN << ReportTitles >> ELSE <<>>)
    \o << << <<"a">> >>, << <<"b">> >> >>

\* What Chromium prints for the body projection: with extrapages = 0 the
\* emptied cover section leaves one blank page, else the cover is printed again.
BodyPdfPages(d, extra) ==
    (IF extra = 0 THEN 1 ELSE d.coverPages) + (IF d.hasToc THEN 1 ELSE 0) + 2

NoDom == [hasToc |-> FALSE, hasTotalPages |-> FALSE, totalPages |-> 0,
          tocSpans |-> <<>>, view |-> "none"]

\* page.setContent(html): the DOM as loaded.
LoadedDom(d) ==
    [hasToc |-> d.hasToc, hasTotalPages |-> d.hasTotalPages, totalPages |-> 0,
     tocSpans |-> IF d.hasToc THEN [i \in 1..Len(ReportTitles) |-> <<>>] ELSE <<>>,
     view |-> "all"]

NoResponse == [kind |-> "none", totalPages |-> 0, tocSpans |-> <<>>, doc |-> <<>>]

IdleRequest ==
    [pc |-> "idle", endpoint |-> "none", body |-> Undefined, status |-> 0,
     response |-> NoResponse, browser |-> 0, dom |-> NoDom, extrapages |-> 0,
     preliminary |-> <<>>, titlesPages |-> EmptyMap, pdfBuffers |-> <<>>,
     merged |-> NoBuffer, error |-> NoError, steps |-> <<>>]

\* childs.forEach(childIndex => ...): append the page number to each listed
\* TOC entry that exists.
RECURSIVE InjectChilds(_, _, _)
InjectChilds(spans, p, childs) ==
    IF childs = <<>> THEN spans
    ELSE LET i == Head(childs) + 1
         IN  InjectChilds(IF i \in DOMAIN spans
                          THEN [spans EXCEPT ![i] = Append(@, p)]
                          ELSE spans,
                          p, Tail(childs))

\* for (const [page, childs] of Object.entries(titlesPages)): integer keys
\* are visited in ascending order.
RECURSIVE InjectPages(_, _, _)
InjectPages(spans, tp, pages) ==
    IF pages = {} THEN spans
    ELSE LET p == CHOOSE x \in pages : \A y \in pages : x <= y
         IN  InjectPages(InjectChilds(spans, p, tp[p]), tp, pages \ {p})

ServerInit ==
    /\ instance = 0
    /\ launches = 0
    /\ openPages = {}
    /\ outputHtml = "none"
    /\ req = [r \in Invocations |-> IdleRequest]
    /\ mode \in {"server", "process"}
    /\ exit = "running"

Step(r, name) == Append(req[r].steps, name)

\* app.post(...): a request arrives at one of the two endpoints.
Receive(r) ==
    /\ mode = "server"
    /\ r \in Requests
    /\ req[r].pc = "idle"
    /\ \E e \in {"pdf_visualiser", "html_visualiser"}, b \in Bodies :
         req' = [req EXCEPT ![r] = [@ EXCEPT !.pc = "check", !.endpoint = e, !.body = b]]
    /\ UNCHANGED <<instance, launches, openPages, outputHtml>>
    /\ UNCHANGED <<locVars, mergeVars, mode, exit>>

\* if (!htmlPage) return res.status(400).send('Request body is empty.')
BodyRejected(body) == ~Truthy(body)

CheckBody(r) ==
    /\ req[r].pc = "check"
    /\ IF BodyRejected(req[r].body)
       THEN req' = [req EXCEPT ![r] = [@ EXCEPT !.pc = "responded", !.status = 400]]
       ELSE req' = [req EXCEPT ![r] = [@ EXCEPT !.pc = "gh_getInstance"]]
    /\ UNCHANGED <<instance, launches, openPages, outputHtml>>
    /\ UNCHANGED <<locVars, mergeVars, mode, exit>>

\* Browser.getInstance up to its first await: return the instance when there
\* is one (the for...in over the promise of pages() visits nothing), else
\* start puppeteer.launch.
GetInstance(r) ==
    /\ req[r].pc \in {"gh_getInstance", "gp_getInstance"}
    /\ LET after == IF req[r].pc = "gh_getInstance" THEN "gh_newPage" ELSE "gp_newPage"
           wait == IF req[r].pc = "gh_getInstance" THEN "gh_launching" ELSE "gp_launching"
       IN  IF instance # 0
           THEN req' = [req EXCEPT ![r] = [@ EXCEPT !.pc = after, !.browser = instance]]
           ELSE req' = [req EXCEPT ![r] = [@ EXCEPT !.pc = wait]]
    /\ UNCHANGED <<instance, launches, openPages, outputHtml>>
    /\ UNCHANGED <<locVars, mergeVars, mode, exit>>

\* this.instance = await puppeteer.launch(...); return this.instance
LaunchDone(r) ==
    /\ req[r].pc \in {"gh_launching", "gp_launching"}
    /\ launches' = launches + 1
    /\ instance' = launches + 1
    /\ req' = [req EXCEPT ![r] = [@ EXCEPT
                  !.pc = IF req[r].pc = "gh_launching" THEN "gh_newPage" ELSE "gp_newPage",
                  !.browser = launches + 1,
                  !.steps = Step(r, "Launch")]]
    /\ UNCHANGED <<openPages, outputHtml>>
    /\ UNCHANGED <<locVars, mergeVars, mode, exit>>

\* generateHTML: browser.version(), browser.newPage(), page.setUserAgent().
GenerateHTMLNewPage(r) ==
    /\ req[r].pc = "gh_newPage"
    /\ openPages' = openPages \cup { <<r, "page">> }
    /\ req' = [req EXCEPT ![r] = [@ EXCEPT !.pc = "gh_setContent"]]
    /\ UNCHANGED <<instance, launches, outputHtml>>
    /\ UNCHANGED <<locVars, mergeVars, mode, exit>>

\* generateHTML: page.setContent(htmlPage); return page.  (createPDFFile
\* makes the same three calls itself before it calls generatePDF.)
GenerateHTMLSetContent(r) ==
    /\ req[r].pc = "gh_setContent"
    /\ req' = [req EXCEPT ![r] = [@ EXCEPT
                  !.pc = IF req[r].endpoint = "html_visualiser" THEN "html_send"
                         ELSE IF req[r].endpoint = "html" THEN "write_html"
                         ELSE "gp_getInstance",
                  !.dom = LoadedDom(req[r].body.doc),
                  !.steps = Step(r, "LoadInitialHTML")]]
    /\ UNCHANGED <<instance, launches, openPages, outputHtml>>
    /\ UNCHANGED <<locVars, mergeVars, mode, exit>>

\* /html_visualiser: res.send(await html.content())
HtmlSend(r) ==
    /\ req[r].pc = "html_send"
    /\ req' = [req EXCEPT ![r] = [@ EXCEPT
                  !.pc = "responded", !.status = 200,
                  !.response = [kind |-> "html", totalPages |-> req[r].dom.totalPages,
                                tocSpans |-> req[r].dom.tocSpans, doc |-> <<>>]]]
    /\ UNCHANGED <<instance, launches, openPages, outputHtml>>
    /\ UNCHANGED <<locVars, mergeVars, mode, exit>>

\* generatePDF: browser.version(), page2 = browser.newPage(), setUserAgent().
GeneratePDFNewPage(r) ==
    /\ req[r].pc = "gp_newPage"
    /\ openPages' = openPages \cup { <<r, "page2">> }
    /\ req' = [req EXCEPT ![r] = [@ EXCEPT !.pc = "gp_probe"]]
    /\ UNCHANGED <<instance, launches, outputHtml>>
    /\ UNCHANGED <<locVars, mergeVars, mode, exit>>

\* Mutant of DeriveExtraPages: the probe's page count is ignored.
DeriveExtraPagesNone(numPages) == 0

\* extrapages = pdf.numPages - 1
DeriveExtraPages(numPages) == numPages - 1

\* Lines 437-462: getFirstSection(page1) hides the body sections, page2 loads
\* that projection, page1 shows every section again; page2.pdf() is parsed
\* and extrapages = pdf.numPages - 1.
RenderCoverProbe(r) ==
    /\ req[r].pc = "gp_probe"
    /\ req' = [req EXCEPT ![r] = [@ EXCEPT
                  !.pc = "gp_preliminary",
                  !.dom = [@ EXCEPT !.view = "all"],
                  !.extrapages = DeriveExtraPages(req[r].body.doc.coverPages),
                  !.steps = Step(r, "RenderCoverProbe") \o <<"DeriveExtraPages">>]]
    /\ UNCHANGED <<instance, launches, openPages, outputHtml>>
    /\ UNCHANGED <<locVars, mergeVars, mode, exit>>

\* Line 471: page1.pdf(options), the whole report.
RenderPreliminary(r) ==
    /\ req[r].pc = "gp_preliminary"
    /\ req' = [req EXCEPT ![r] = [@ EXCEPT
                  !.pc = "gp_parse",
                  !.preliminary = PreliminaryPdf(req[r].body.doc),
                  !.steps = Step(r, "RenderFullDocumentPreliminary")]]
    /\ UNCHANGED <<instance, launches, openPages, outputHtml>>
    /\ UNCHANGED <<locVars, mergeVars, mode, exit>>

\* Lines 475-482: pdfjs.getDocument(pdfData).promise
ParsePreliminary(r) ==
    /\ req[r].pc = "gp_parse"
    /\ req' = [req EXCEPT ![r] = [@ EXCEPT
                  !.pc = "gp_pageCount",
                  !.steps = Step(r, "ParsePreliminary")]]
    /\ UNCHANGED <<instance, launches, openPages, outputHtml>>
    /\ UNCHANGED <<locVars, mergeVars, mode, exit>>

RejectedError == "an awaited call rejected"
LaunchError == "Puppeteer launch failed"
SelectorError == "failed to find element matching selector .totalPages"
TocMissingError == "Le sommaire n'a pas ete trouve"

\* An exception err leaves generateHTML / generatePDF and reaches the handler's
\* catch: console.error(err); res.status(500).send('Error generating PDF')
Respond500(rq, err) == [rq EXCEPT !.pc = "responded", !.status = 500, !.error = err]

\* The same exception in a process started by main(): the catch of main logs
\* it and calls process.exit(1).
Exit1(rq, err) == [rq EXCEPT !.pc = "exited", !.error = err]

\* Mutant of Fail: the exception is logged and the pipeline goes on.
FailSwallowed(rq, err) == [rq EXCEPT !.error = err]

\* An exception thrown inside the pipeline reaches the top-level caller.
Fail(rq, err) ==
    IF rq.endpoint \in ProcessActions THEN Exit1(rq, err) ELSE Respond500(rq, err)

\* The process state after invocation r has or has not failed.
ExitOn(r, failed) ==
    IF failed /\ req[r].endpoint \in ProcessActions THEN "exit1" ELSE exit

\* updatePageCount(page1, pdf.numPages): page.$eval('.totalPages', ...) sets
\* the field's text, and throws when no element matches the selector.
UpdatePageCount(r) ==
    /\ req[r].pc = "gp_pageCount"
    /\ IF req[r].dom.hasTotalPages
       THEN req' = [req EXCEPT ![r] = [@ EXCEPT
                       !.pc = "gp_toc",
                       !.dom = [@ EXCEPT !.totalPages = Len(req[r].preliminary)],
                       !.steps = Step(r, "UpdatePageCountField")]]
       ELSE req' = [req EXCEPT ![r] = Fail(@, SelectorError)]
    /\ exit' = ExitOn(r, ~req[r].dom.hasTotalPages)
    /\ UNCHANGED <<instance, launches, openPages, outputHtml>>
    /\ UNCHANGED <<locVars, mergeVars, mode>>

\* Mutant of TocMissingReturns: a missing list aborts the pipeline.
TocMissingThrows(rq) == Respond500(rq, TocMissingError)

\* updateTableOfContent, lines 243-246: log and return, nothing else.
TocMissingReturns(rq) == [rq EXCEPT !.pc = "gp_projectCover"]

\* updateTableOfContent, lines 241-257: look the list up and read its titles.
UpdateTableOfContent(r) ==
    /\ req[r].pc = "gp_toc"
    /\ IF req[r].dom.hasToc
       THEN req' = [req EXCEPT ![r] = [@ EXCEPT !.pc = "gp_locate"]]
       ELSE req' = [req EXCEPT ![r] = TocMissingReturns(@)]
    /\ UNCHANGED <<instance, launches, openPages, outputHtml>>
    /\ UNCHANGED <<locVars, mergeVars, mode, exit>>

\* Line 260: find_page_number(pdf, titles, extrapages)
LocateTitles(r) ==
    /\ req[r].pc = "gp_locate"
    /\ req' = [req EXCEPT ![r] = [@ EXCEPT
                  !.pc = "gp_inject",
                  !.titlesPages = FindPageNumber(req[r].preliminary, ReportTitles,
                                                 req[r].extrapages),
                  !.steps = Step(r, "LocateTitles")]]
    /\ UNCHANGED <<instance, launches, openPages, outputHtml>>
    /\ UNCHANGED <<locVars, mergeVars, mode, exit>>

\* Lines 263-289: append the dots and page-number spans to the TOC links.
InjectTOCNumbers(r) ==
    /\ req[r].pc = "gp_inject"
    /\ req' = [req EXCEPT ![r] = [@ EXCEPT
                  !.pc = "gp_projectCover",
                  !.dom = [@ EXCEPT !.tocSpans =
                              InjectPages(@, req[r].titlesPages,
                                          DOMAIN req[r].titlesPages)],
                  !.steps = Step(r, "InjectTOCNumbers")]]
    /\ UNCHANGED <<instance, launches, openPages, outputHtml>>
    /\ UNCHANGED <<locVars, mergeVars, mode, exit>>

\* Line 494: getFirstSection(page1)
ProjectCover(r) ==
    /\ req[r].pc = "gp_projectCover"
    /\ req' = [req EXCEPT ![r] = [@ EXCEPT
                  !.pc = "gp_renderCover",
                  !.dom = [@ EXCEPT !.view = "coverOnly"],
                  !.steps = Step(r, "ProjectCover")]]
    /\ UNCHANGED <<instance, launches, openPages, outputHtml>>
    /\ UNCHANGED <<locVars, mergeVars, mode, exit>>

\* Loop pass i = 0, lines 509-531: page2 loads the projection and prints it.
RenderCover(r) ==
    /\ req[r].pc = "gp_renderCover"
    /\ req' = [req EXCEPT ![r] = [@ EXCEPT
                  !.pc = "gp_projectBody",
                  !.pdfBuffers = Append(@, DocOf(0, req[r].body.doc.coverPages)),
                  !.steps = Step(r, "RenderCover")]]
    /\ UNCHANGED <<instance, launches, openPages, outputHtml>>
    /\ UNCHANGED <<locVars, mergeVars, mode, exit>>

\* Loop pass i = 1, lines 501-503: getAllSectionsExceptFirst(page1, extrapages)
\* and fs.writeFileSync("output.html", content_after).
ProjectBody(r) ==
    /\ req[r].pc = "gp_projectBody"
    /\ outputHtml' = r
    /\ req' = [req EXCEPT ![r] = [@ EXCEPT
                  !.pc = "gp_renderBody",
                  !.dom = [@ EXCEPT !.view = "bodyOnly"],
                  !.steps = Step(r, "ProjectBody")]]
    /\ UNCHANGED <<instance, launches, openPages>>
    /\ UNCHANGED <<locVars, mergeVars, mode, exit>>

\* Loop pass i = 1, lines 509-531.
RenderBody(r) ==
    /\ req[r].pc = "gp_renderBody"
    /\ req' = [req EXCEPT ![r] = [@ EXCEPT
                  !.pc = "gp_close",
                  !.pdfBuffers = Append(@, DocOf(1, BodyPdfPages(req[r].body.doc,
                                                                 req[r].extrapages))),
                  !.steps = Step(r, "RenderBody")]]
    /\ UNCHANGED <<instance, launches, openPages, outputHtml>>
    /\ UNCHANGED <<locVars, mergeVars, mode, exit>>

\* Lines 537-538: page2.close(), page1.close()
ClosePages(r) ==
    /\ req[r].pc = "gp_close"
    /\ openPages' = openPages \ { <<r, "page">>, <<r, "page2">> }
    /\ req' = [req EXCEPT ![r] = [@ EXCEPT !.pc = "gp_merge"]]
    /\ UNCHANGED <<instance, launches, outputHtml>>
    /\ UNCHANGED <<locVars, mergeVars, mode, exit>>

\* Lines 544-548: the count check and mergePDFs(pdfBuffers, extrapages); the
\* merged buffer goes back to the handler, or to createPDFFile.
Merge(r) ==
    /\ req[r].pc = "gp_merge"
    /\ LET m == MergePDFs(req[r].pdfBuffers, req[r].extrapages)
       IN  IF m.error = NoError
           THEN req' = [req EXCEPT ![r] = [@ EXCEPT
                           !.pc = IF req[r].endpoint = "pdf" THEN "write_pdf"
                                  ELSE "pdf_send",
                           !.merged = m.doc,
                           !.steps = Step(r, "MergePDFs")]]
           ELSE req' = [req EXCEPT ![r] = Fail(@, m.error)]
    /\ exit' = ExitOn(r, MergePDFs(req[r].pdfBuffers, req[r].extrapages).error # NoError)
    /\ UNCHANGED <<instance, launches, openPages, outputHtml>>
    /\ UNCHANGED <<locVars, mergeVars, mode>>

\* /pdf_visualiser: res.send(pdf)
PdfSend(r) ==
    /\ req[r].pc = "pdf_send"
    /\ req' = [req EXCEPT ![r] = [@ EXCEPT
                  !.pc = "responded", !.status = 200,
                  !.response = [kind |-> "pdf", totalPages |-> req[r].dom.totalPages,
                                tocSpans |-> req[r].dom.tocSpans,
                                doc |-> req[r].merged],
                  !.steps = Step(r, "Done")]]
    /\ UNCHANGED <<instance, launches, openPages, outputHtml>>
    /\ UNCHANGED <<locVars, mergeVars, mode, exit>>

(***************************************************************************)
(* Process mode: main, createHTMLFile and createPDFFile (index.js).        *)
(***************************************************************************)
IOError == "file could not be read or written"

\* What fs.readFileSync(path, "utf8") returns for a report d.
FileContent(d) == [kind |-> "string", bytes |-> "html", doc |-> d]

\* main(): switch (process.argv[2]); an action other than pdf and html is
\* logged and the process ends with code 0.
Main(r) ==
    /\ mode = "process"
    /\ r = MainInvocation
    /\ exit = "running"
    /\ req[r].pc = "idle"
    /\ \E a \in ProcessActions \cup {"unknown"} :
         IF a \in ProcessActions
         THEN /\ req' = [req EXCEPT ![r] = [@ EXCEPT !.pc = "read", !.endpoint = a]]
              /\ UNCHANGED exit
         ELSE /\ req' = [req EXCEPT ![r] = [@ EXCEPT !.pc = "exited", !.endpoint = a]]
              /\ exit' = "exit0"
    /\ UNCHANGED <<instance, launches, openPages, outputHtml>>
    /\ UNCHANGED <<locVars, mergeVars, mode>>

\* createHTMLFile / createPDFFile: fs.readFileSync of the input HTML.
ReadInput(r) ==
    /\ req[r].pc = "read"
    /\ \E d \in HtmlDocs :
         req' = [req EXCEPT ![r] = [@ EXCEPT !.pc = "gh_getInstance",
                                             !.body = FileContent(d)]]
    /\ UNCHANGED <<instance, launches, openPages, outputHtml>>
    /\ UNCHANGED <<locVars, mergeVars, mode, exit>>

\* createHTMLFile: writeFileSync(reportName, await page.content());
\* createPDFFile: writeFileSync(finalPdfPath, mergedPdfBuffer); then main logs
\* success and calls process.exit(0).
WriteOutput(r) ==
    /\ req[r].pc \in {"write_html", "write_pdf"}
    /\ req' = [req EXCEPT ![r] = [@ EXCEPT
                  !.pc = "exited",
                  !.response = [kind |-> IF req[r].pc = "write_pdf"
                                         THEN "pdf_file" ELSE "html_file",
                                totalPages |-> req[r].dom.totalPages,
                                tocSpans |-> req[r].dom.tocSpans,
                                doc |-> req[r].merged],
                  !.steps = Step(r, "Done")]]
    /\ exit' = "exit0"
    /\ UNCHANGED <<instance, launches, openPages, outputHtml>>
    /\ UNCHANGED <<locVars, mergeVars, mode>>

\* readFileSync or writeFileSync throws: the function rethrows, main's catch
\* calls process.exit(1).
FileFails(r) ==
    /\ req[r].pc \in {"read", "write_html", "write_pdf"}
    /\ req' = [req EXCEPT ![r] = Fail(@, IOError)]
    /\ exit' = ExitOn(r, TRUE)
    /\ UNCHANGED <<instance, launches, openPages, outputHtml>>
    /\ UNCHANGED <<locVars, mergeVars, mode>>

\* The awaits on the browser, the parser and the merge that may reject.
Fallible ==
    { "gh_newPage", "gh_setContent", "html_send", "gp_newPage", "gp_probe",
      "gp_preliminary", "gp_parse", "gp_pageCount", "gp_toc", "gp_locate",
      "gp_inject", "gp_projectCover", "gp_renderCover", "gp_projectBody",
      "gp_renderBody", "gp_close", "gp_merge" }

\* An awaited call rejects: the exception reaches the handler's catch.
StepFails(r) ==
    /\ req[r].pc \in Fallible
    /\ req' = [req EXCEPT ![r] = Fail(@, RejectedError)]
    /\ exit' = ExitOn(r, TRUE)
    /\ UNCHANGED <<instance, launches, openPages, outputHtml>>
    /\ UNCHANGED <<locVars, mergeVars, mode>>

\* puppeteer.launch rejects: getInstance rethrows, Browser.instance stays as it was.
LaunchFails(r) ==
    /\ req[r].pc \in {"gh_launching", "gp_launching"}
    /\ req' = [req EXCEPT ![r] = Fail(@, LaunchError)]
    /\ exit' = ExitOn(r, TRUE)
    /\ UNCHANGED <<instance, launches, openPages, outputHtml>>
    /\ UNCHANGED <<locVars, mergeVars, mode>>

(***************************************************************************)
(* Properties of mergePDFs.                                                *)
(***************************************************************************)
\* C2 as stated: the merged page count is the body's, minus the artifact page,
\* minus extraPages, plus the cover page.
C2_MergedCountMinusExtraPages ==
    mpc = "returned" =>
        Len(mergedPdfBuffer) = Len(pdfBuffers[2]) - 1 - mergeExtra + 1

\* C2 as amended: the merged page count is the body's, minus the removed page,
\* plus the cover page, whatever extraPages is; the extraPages pages are
\* removed from the cover document, of which page 0 alone is copied.
C2_MergedCountIsBodyCount ==
    mpc = "returned" =>
        /\ Len(mergedPdfBuffer) = Len(pdfBuffers[2]) - 1 + 1
        /\ Len(firstPDFDoc) = Len(pdfBuffers[1]) - mergeExtra

C2_Witness ==
    mpc = "returned" /\ mergeExtra >= 1 /\ Len(pdfBuffers[1]) > mergeExtra + 1

\* C6: with a buffer list of any length but 2, mergePDFs throws the
\* count-mismatch error before a document is loaded or changed, and returns
\* no merged buffer.
C6_WrongCountFailsBeforeLoad ==
    (mpc # "unused" /\ Len(pdfBuffers) # 2) =>
        /\ ~loaded
        /\ firstPDFDoc = <<>>
        /\ restPDFDoc = <<>>
        /\ mergedPdfBuffer = NoBuffer
        /\ mpc \in {"check", "threw"}
        /\ mergeError = (IF mpc = "threw" THEN CountMismatchError ELSE NoError)

C6_Witness ==
    mpc = "threw" /\ Len(pdfBuffers) = 3 /\ mergeError = CountMismatchError

\* The set of pages a document holds.
PagesIn(doc) == { doc[i] : i \in DOMAIN doc }

\* C12: the page mergePDFs deletes from the body document is the one at
\* 0-based index 1: the merged output keeps the body's original page 0 and
\* lacks its original page 1.
C12_BodyPageOneIsDeleted ==
    (mpc = "returned" /\ Len(pdfBuffers[2]) >= 2)
    => /\ pdfBuffers[2][1] \in PagesIn(mergedPdfBuffer)
       /\ pdfBuffers[2][2] \notin PagesIn(mergedPdfBuffer)

(***************************************************************************)
(* Properties of the handlers and of generatePDF.                          *)
(***************************************************************************)
\* C3: the HTML that "generate intermediate HTML" returns has its total page
\* count filled in and its TOC entries numbered.
C3_HtmlOutputIsNumbered ==
    \A r \in Requests :
        ( /\ req[r].endpoint = "html_visualiser"
          /\ req[r].status = 200
          /\ req[r].body.doc.hasToc
          /\ req[r].body.doc.hasTotalPages )
        => /\ req[r].response.totalPages > 0
           /\ \E i \in DOMAIN req[r].response.tocSpans :
                 req[r].response.tocSpans[i] # <<>>

\* C4: at both endpoints a request with an empty or missing body is answered
\* 400, and neither a page is created nor a render attempted for it.
C4_EmptyBodyAnswered400 ==
    \A r \in Requests :
        (req[r].pc # "idle" /\ req[r].body.bytes \in {"none", "empty"})
        => /\ req[r].pc \in {"check", "responded"}
           /\ req[r].pc = "responded" => req[r].status = 400
           /\ <<r, "page">> \notin openPages
           /\ req[r].steps = <<>>

\* The positions of generatePDF after updateTableOfContent has returned.
AfterToc ==
    { "gp_projectCover", "gp_renderCover", "gp_projectBody", "gp_renderBody",
      "gp_close", "gp_merge", "pdf_send" }

\* C10 (Scenario D): without a #table-of-content element, updateTableOfContent
\* returns without throwing and without changing the DOM, the total-page-count
\* field holds the preliminary PDF's page count, and generatePDF goes on to
\* the cover projection (and from there to the renders and the merge).
C10_MissingTocIsNotFatal ==
    /\ [](\A r \in Requests :
            (~req[r].dom.hasToc /\ (req[r].pc \in AfterToc \/ req[r].response.kind = "pdf"))
            => /\ req[r].dom.tocSpans = <<>>
               /\ req[r].titlesPages = EmptyMap
               /\ req[r].dom.totalPages = Len(req[r].preliminary)
               /\ req[r].error = NoError)
    /\ [][\A r \in Requests :
            ( /\ req[r].pc = "gp_toc"
              /\ ~req[r].dom.hasToc
              /\ req'[r].pc # "gp_toc"
              /\ req'[r].error # RejectedError )
            => /\ req'[r].pc = "gp_projectCover"
               /\ req'[r].error = NoError
               /\ req'[r].dom = req[r].dom
               /\ req[r].dom.totalPages = Len(req[r].preliminary)]_vars

C10_Witness ==
    \E r \in Requests :
        /\ ~req[r].body.doc.hasToc
        /\ req[r].status = 200
        /\ req[r].response.kind = "pdf"
        /\ req[r].response.totalPages = Len(req[r].preliminary)
        /\ Len(req[r].pdfBuffers) = 2
        /\ Len(req[r].response.doc) > 0

\* No step name occurs twice in a step trace.
NoRepeat(trace) ==
    \A i, k \in 1..Len(trace) : trace[i] = trace[k] => i = k

\* C11: when a step of an invocation fails, the invocation ends there: no step
\* is repeated, nothing of that invocation runs afterwards, the process exits
\* with code 1 (process mode) or the request is answered 500 (server mode),
\* and no PDF, HTML or 200 response is produced for it.
C11_FailureEndsInvocation ==
    /\ [](\A r \in Invocations :
            req[r].error # NoError
            => /\ req[r].pc \in {"responded", "exited"}
               /\ IF req[r].endpoint \in ProcessActions
                  THEN req[r].pc = "exited" /\ exit = "exit1"
                  ELSE req[r].pc = "responded" /\ req[r].status = 500
               /\ req[r].response = NoResponse
               /\ NoRepeat(req[r].steps))
    /\ [][\A r \in Invocations :
            /\ req[r].error # NoError => req'[r] = req[r]
            /\ (req[r].error = NoError /\ req'[r].error # NoError)
               => req'[r].steps = req[r].steps]_vars

\* The body render of a process-mode run fails after the cover was rendered.
C11_Witness ==
    /\ mode = "process"
    /\ exit = "exit1"
    /\ req[MainInvocation].endpoint = "pdf"
    /\ req[MainInvocation].error = RejectedError
    /\ req[MainInvocation].pc = "exited"
    /\ Len(req[MainInvocation].pdfBuffers) = 1
    /\ req[MainInvocation].steps[Len(req[MainInvocation].steps)] = "ProjectBody"

\* C13: in one process the browser is launched at most once, and every
\* invocation that has obtained a browser holds the same instance.
C13_OneLaunchOneInstance ==
    /\ launches <= 1
    /\ \A r, q \in Invocations :
          (req[r].browser # 0 /\ req[q].browser # 0) => req[r].browser = req[q].browser

\* The page handles invocation r has created and not closed.
PagesOpenedBy(r) == { h \in openPages : h[1] = r }

\* C14: once an invocation has ended, with a response of any status at
\* either endpoint, every page handle it created has been closed.
C14_PagesClosedAtEnd ==
    \A r \in Requests : req[r].pc = "responded" => PagesOpenedBy(r) = {}

\* The positions of generatePDF after the body projection wrote output.html.
AfterOutputHtml == { "gp_renderBody", "gp_close", "gp_merge", "pdf_send" }

\* The steps of generatePDF in the order the specification gives them.
PipelineOrder ==
    << "RenderCoverProbe", "DeriveExtraPages", "RenderFullDocumentPreliminary",
       "ParsePreliminary", "UpdatePageCountField", "LocateTitles", "InjectTOCNumbers",
       "ProjectCover", "RenderCover", "ProjectBody", "RenderBody", "MergePDFs" >>

IsPipelineStep(name) == \E k \in 1..Len(PipelineOrder) : PipelineOrder[k] = name

IsTocStep(name) == name \in {"LocateTitles", "InjectTOCNumbers"}

NotTocStep(name) == ~IsTocStep(name)

\* The order for a report d: without a #table-of-content list the two TOC
\* steps do not run (updateTableOfContent returns at once).
ExpectedOrder(d) ==
    IF d.hasToc THEN PipelineOrder ELSE SelectSeq(PipelineOrder, NotTocStep)

IsPrefix(a, b) == Len(a) <= Len(b) /\ SubSeq(b, 1, Len(a)) = a

Did(r, name) == \E k \in 1..Len(req[r].steps) : req[r].steps[k] = name

\* C15: at every moment the generatePDF steps an invocation has done are an
\* initial part of the order cover probe, derive extraPages, preliminary
\* render, parse, page-count field, locate titles, inject, cover projection,
\* cover render, body projection, body render, merge; a run that returns a
\* PDF has done all of them; and the extraPages value the probe gave
\* (cover pages - 1) is the one the locator, the body projection and the
\* merge worked with.
C15_StepsInOrder ==
    \A r \in Invocations :
        LET d == req[r].body.doc
            done == SelectSeq(req[r].steps, IsPipelineStep)
            e == d.coverPages - 1
        IN  /\ IsPrefix(done, ExpectedOrder(d))
            /\ req[r].response.kind \in {"pdf", "pdf_file"} => done = ExpectedOrder(d)
            /\ Did(r, "DeriveExtraPages") => req[r].extrapages = e
            /\ Did(r, "LocateTitles")
               => req[r].titlesPages = FindPageNumber(req[r].preliminary, ReportTitles, e)
            /\ Did(r, "RenderBody")
               => req[r].pdfBuffers[2] = DocOf(1, BodyPdfPages(d, e))
            /\ Did(r, "MergePDFs")
               => req[r].merged = MergePDFs(req[r].pdfBuffers, e).doc

\* A request with a TOC and an overflowing cover went through all twelve steps.
C15_Witness ==
    \E r \in Requests :
        /\ req[r].response.kind = "pdf"
        /\ req[r].body.doc.hasToc
        /\ req[r].extrapages = 1
        /\ SelectSeq(req[r].steps, IsPipelineStep) = PipelineOrder

\* C16: the file an invocation writes during generatePDF is its own: while
\* the invocation that wrote output.html is still running, the file holds
\* what that invocation wrote.
C16_OutputHtmlIsPrivate ==
    \A r \in Requests : req[r].pc \in AfterOutputHtml => outputHtml = r

\* C17: a failed browser launch ends the process: whenever an invocation has
\* been failed by a launch error, the process has exited with a non-zero
\* code (so nothing is served and no launch is attempted afterwards).
C17_LaunchFailureEndsProcess ==
    \A r \in Invocations : req[r].error = LaunchError => exit = "exit1"

(***************************************************************************)
(* Specifications.  Each one runs one part and holds the others still.     *)
(***************************************************************************)
LocatorIdle ==
    /\ pdf = <<>> /\ table_of_content = <<>> /\ extrapages = 0
    /\ pageNb = FirstScannedPage /\ items = <<>> /\ j = 1 /\ scrapText = <<>>
    /\ foundTitles = <<>> /\ titlesPages = EmptyMap /\ finds = <<>>
    /\ scenario = "none" /\ fpc = "unused"

MergeIdle ==
    /\ pdfBuffers = <<>> /\ mergeExtra = 0 /\ loaded = FALSE
    /\ firstPDFDoc = <<>> /\ restPDFDoc = <<>> /\ mergedPdfBuffer = NoBuffer
    /\ mergeError = NoError /\ mpc = "unused"

Init == ServerInit /\ LocatorIdle /\ MergeIdle

Next ==
    \E r \in Invocations :
        \/ Receive(r)
        \/ CheckBody(r)
        \/ GetInstance(r)
        \/ LaunchDone(r)
        \/ LaunchFails(r)
        \/ GenerateHTMLNewPage(r)
        \/ GenerateHTMLSetContent(r)
        \/ HtmlSend(r)
        \/ GeneratePDFNewPage(r)
        \/ RenderCoverProbe(r)
        \/ RenderPreliminary(r)
        \/ ParsePreliminary(r)
        \/ UpdatePageCount(r)
        \/ UpdateTableOfContent(r)
        \/ LocateTitles(r)
        \/ InjectTOCNumbers(r)
        \/ ProjectCover(r)
        \/ RenderCover(r)
        \/ ProjectBody(r)
        \/ RenderBody(r)
        \/ ClosePages(r)
        \/ Merge(r)
        \/ PdfSend(r)
        \/ StepFails(r)
        \/ Main(r)
        \/ ReadInput(r)
        \/ WriteOutput(r)
        \/ FileFails(r)

Spec == Init /\ [][Next]_vars

LocatorSpecInit == LocatorInit /\ MergeIdle /\ ServerInit

LocatorNext == GetPage \/ ScanItem \/ EndPage \/ ReturnTitlesPages

SpecLocator == LocatorSpecInit /\ [][LocatorNext]_vars

MergeSpecInit == MergeInit /\ LocatorIdle /\ ServerInit

MergeNext ==
    MergeCheckCount \/ MergeLoad \/ MergeRemovePages \/ MergeCopyInsert \/ MergeSave

SpecMerge == MergeSpecInit /\ [][MergeNext]_vars

====
